---- MODULE Spec2Model ----
(***************************************************************************)
(* A model of the code cells of the reading-notes notebooks:               *)
(*   - Chapter-13.ipynb: preprocess_text, get_vocabulary,                  *)
(*     TextVectorization, BagOfWords, save_tfrecords, load_dataset         *)
(*   - Chapter-12.ipynb: the custom training loop of exercise 13           *)
(*   - 08-StringOperations.ipynb: the list comprehension over data,        *)
(*     names.str.capitalize()                                              *)
(*   - 03-DataOperations.ipynb: A + B on Series and DataFrames             *)
(* Each part has its variables, its specification and, at the end of the   *)
(* module, its properties; a specification leaves the variables of the     *)
(* other parts idle.                                                       *)
(* Strings are sequences of one-character strings, a batch is a sequence   *)
(* of strings, a ragged or dense string tensor a sequence of rows.         *)
(***************************************************************************)
EXTENDS Integers, Sequences, FiniteSets, TLC

VARIABLES
    \* ---- Chapter 13, exercise 10.d: TextVectorization and BagOfWords
    tv_pc,                  \* "new" | "adapted" | "called" | "bagged"
    max_vocabulary_size,    \* TextVectorization.max_vocabulary_size
    n_oov_buckets,          \* TextVectorization.n_oov_buckets
    data_sample,            \* the batch given to adapt()
    vocab,                  \* TextVectorization.vocab
    tv_inputs,              \* the batch given to call()
    tv_ids,                 \* what call() returned
    bow_out,                \* what BagOfWords.call() returned for tv_ids
    \* ---- Chapter 13: preprocess_text applied on its own
    pp_pc,                  \* "start" | "done"
    X_batch,                \* the argument X_batch
    n_words,                \* the argument n_words
    Z,                      \* the returned tensor
    \* ---- Chapter 12, exercise 13: the custom training loop
    tl_pc,                  \* "epoch" | "steps" | "done" | "NameError"
    n_epochs,               \* n_epochs
    batch_size,             \* batch_size
    len_X_train,            \* len(X_train)
    n_steps,                \* n_steps
    epoch,                  \* the loop variable epoch, 0 before the loop
    step,                   \* the loop variable step, 0 before the first step
    status,                 \* the name status: whether bound, and the keys
    n_iterations,           \* how many times the body of the inner loop ran
    n_reports,              \* how many validation reports were printed
    \* ---- Chapter 13, exercise 9: iterating over load_dataset(filepaths)
    ld_pc,                  \* "iterating" | "exhausted" | "dropped"
    cpu_count,              \* what os.cpu_count() returned
    n_files,                \* len(filepaths)
    n_items,                \* how many records save_tfrecords wrote
    ld_batch_size,          \* the argument batch_size
    shuffle_buffer_size,    \* the argument shuffle_buffer_size, 0 for None
    cache,                  \* the argument cache
    ld_pass,                \* which iteration over the dataset this is
    ld_cached,              \* the records cache() holds
    ld_from_cache,          \* this iteration takes the records from the cache
    ld_unserved,            \* the cached records this iteration has not seen
    ld_shuffle,             \* the records in the buffer of shuffle()
    ld_next,                \* per file, how many of its records were read
    ld_open,                \* the files being read at this moment
    ld_records,             \* records read, waiting for preprocess
    ld_running,             \* records in a running preprocess call
    ld_parsed,              \* results of preprocess, waiting for a batch
    ld_prefetched,          \* the batches prefetch(1) holds
    ld_consumed,            \* the batches the iteration received
    \* ---- a code cell that raises: pandas 08, cell 3; Chapter 13, cell 5
    cell,                   \* "listcomp" | "save_tfrecords"
    lc_pc,                  \* "start" | "listcomp" | "displayed" | "AttributeError"
    lc_literal,             \* the list written in the cell
    data,                   \* the name data
    lc_result,              \* the list the comprehension is building
    lc_calls,               \* how many times s.capitalize() was called
    lc_out,                 \* the value of the cell, if it has one
    sv_pc,                  \* "call" | "open" | "write" | "raised" | "finished"
    sv_stmt,                \* the statement of the cell being executed, 1..3
    n_records,              \* the argument n_records
    sv_len,                 \* how many elements each of the datasets has
    writers,                \* the writers entered in the ExitStack
    sv_files,               \* per statement, the files on disk
    sv_idx,                 \* how many elements the running call has written
    sv_bound,               \* the statements whose name is bound
    \* ---- pandas 08, cells 4 and 5: names.str.capitalize()
    st_pc,                  \* "start" | "series" | "capitalized"
    st_data,                \* the list data
    names,                  \* the Series names
    st_out,                 \* the Series names.str.capitalize() returned
    \* ---- pandas 03: A + B on two Series or two DataFrames
    al_pc,                  \* "start" | "added" | "divided" | "filled" | "applied"
    al_kind,                \* "Series" | "DataFrame" | "population / area"
    A,                      \* the left operand (A, or population)
    B,                      \* the right operand (B, or area)
    al_out,                 \* the result of the operation
    fill,                   \* the argument fill_value, NaN before it is given
    \* ---- pandas 08: a chained comparison, with operators and with pd.eval
    ev_pc,                  \* "start" | "result1" | "result2" | "compared"
    df1, df2, df3, df4,     \* the values of four frames of one shape
    result1,                \* (df1 < df2) & (df2 <= df3) & (df3 != df4)
    result2,                \* pd.eval('df1 < df2 <= df3 != df4')
    ev_equal                \* np.array_equal(result1, result2)

tvVars == <<tv_pc, max_vocabulary_size, n_oov_buckets, data_sample, vocab,
            tv_inputs, tv_ids, bow_out>>
ppVars == <<pp_pc, X_batch, n_words, Z>>
tlVars == <<tl_pc, n_epochs, batch_size, len_X_train, n_steps, epoch, step,
            status, n_iterations, n_reports>>
ldVars == <<ld_pc, cpu_count, n_files, n_items, ld_batch_size,
            shuffle_buffer_size, cache, ld_pass, ld_cached, ld_from_cache,
            ld_unserved, ld_shuffle, ld_next, ld_open, ld_records, ld_running, ld_parsed,
            ld_prefetched, ld_consumed>>
ceVars == <<cell, lc_pc, lc_literal, data, lc_result, lc_calls, lc_out, sv_pc,
            sv_stmt, n_records, sv_len, writers, sv_files, sv_idx, sv_bound>>
stVars == <<st_pc, st_data, names, st_out>>
alVars == <<al_pc, al_kind, A, B, al_out, fill>>
evVars == <<ev_pc, df1, df2, df3, df4, result1, result2, ev_equal>>
vars == <<tvVars, ppVars, tlVars, ldVars, ceVars, stVars, alVars, evVars>>

\* what the actions of one part leave alone
notTv == <<ppVars, tlVars, ldVars, ceVars, stVars, alVars, evVars>>
notPp == <<tvVars, tlVars, ldVars, ceVars, stVars, alVars, evVars>>
notTl == <<tvVars, ppVars, ldVars, ceVars, stVars, alVars, evVars>>
notLd == <<tvVars, ppVars, tlVars, ceVars, stVars, alVars, evVars>>
notCe == <<tvVars, ppVars, tlVars, ldVars, stVars, alVars, evVars>>
notSt == <<tvVars, ppVars, tlVars, ldVars, ceVars, alVars, evVars>>
notAl == <<tvVars, ppVars, tlVars, ldVars, ceVars, stVars, evVars>>
notEv == <<tvVars, ppVars, tlVars, ldVars, ceVars, stVars, alVars>>

\* a name that no statement has assigned yet
Unbound == [bound |-> FALSE, keys |-> {}]

\* the parts a specification does not run
tvIdle ==
    /\ tv_pc = "idle"
    /\ max_vocabulary_size = 0
    /\ n_oov_buckets = 0
    /\ data_sample = <<>>
    /\ vocab = <<>>
    /\ tv_inputs = <<>>
    /\ tv_ids = <<>>
    /\ bow_out = <<>>
ppIdle == pp_pc = "idle" /\ X_batch = <<>> /\ n_words = 0 /\ Z = <<>>
tlIdle ==
    /\ tl_pc = "idle"
    /\ n_epochs = 0
    /\ batch_size = 0
    /\ len_X_train = 0
    /\ n_steps = 0
    /\ epoch = 0
    /\ step = 0
    /\ status = Unbound
    /\ n_iterations = 0
    /\ n_reports = 0
ldIdle ==
    /\ ld_pc = "idle"
    /\ cpu_count = 0
    /\ n_files = 0
    /\ n_items = 0
    /\ ld_batch_size = 0
    /\ shuffle_buffer_size = 0
    /\ cache = FALSE
    /\ ld_pass = 0
    /\ ld_cached = {}
    /\ ld_from_cache = FALSE
    /\ ld_unserved = {}
    /\ ld_shuffle = {}
    /\ ld_next = <<>>
    /\ ld_open = {}
    /\ ld_records = {}
    /\ ld_running = {}
    /\ ld_parsed = {}
    /\ ld_prefetched = <<>>
    /\ ld_consumed = <<>>
\* a cell without a value
NoValue == [produced |-> FALSE, value |-> <<>>]
lcIdle ==
    /\ lc_pc = "idle"
    /\ lc_literal = <<>>
    /\ data = <<>>
    /\ lc_result = <<>>
    /\ lc_calls = 0
    /\ lc_out = NoValue
svIdle ==
    /\ sv_pc = "idle"
    /\ sv_stmt = 0
    /\ n_records = 0
    /\ sv_len = 0
    /\ writers = <<>>
    /\ sv_files = <<>>
    /\ sv_idx = 0
    /\ sv_bound = {}
ceIdle == cell = "idle" /\ lcIdle /\ svIdle
\* a Series without entries
EmptySeries == [index |-> <<>>, values |-> <<>>]
stIdle ==
    /\ st_pc = "idle"
    /\ st_data = <<>>
    /\ names = EmptySeries
    /\ st_out = EmptySeries
alIdle ==
    /\ al_pc = "idle"
    /\ al_kind = "idle"
    /\ A = EmptySeries
    /\ B = EmptySeries
    /\ al_out = EmptySeries
    /\ fill = [nan |-> TRUE, v |-> 0]
evIdle ==
    /\ ev_pc = "idle"
    /\ df1 = <<>>
    /\ df2 = <<>>
    /\ df3 = <<>>
    /\ df4 = <<>>
    /\ result1 = <<>>
    /\ result2 = <<>>
    /\ ev_equal = FALSE
idleButTv == ppIdle /\ tlIdle /\ ldIdle /\ ceIdle /\ stIdle /\ alIdle /\ evIdle
idleButPp == tvIdle /\ tlIdle /\ ldIdle /\ ceIdle /\ stIdle /\ alIdle /\ evIdle
idleButTl == tvIdle /\ ppIdle /\ ldIdle /\ ceIdle /\ stIdle /\ alIdle /\ evIdle
idleButLd == tvIdle /\ ppIdle /\ tlIdle /\ ceIdle /\ stIdle /\ alIdle /\ evIdle
idleButCe == tvIdle /\ ppIdle /\ tlIdle /\ ldIdle /\ stIdle /\ alIdle /\ evIdle
idleButSt == tvIdle /\ ppIdle /\ tlIdle /\ ldIdle /\ ceIdle /\ alIdle /\ evIdle
idleButAl == tvIdle /\ ppIdle /\ tlIdle /\ ldIdle /\ ceIdle /\ stIdle /\ evIdle
idleButEv == tvIdle /\ ppIdle /\ tlIdle /\ ldIdle /\ ceIdle /\ stIdle /\ alIdle

Min(a, b) == IF a < b THEN a ELSE b

\* the sequence f with every element evaluated (f may be written as a function
\* [i \in 1..n |-> e])
Dense(f) == SubSeq(f, 1, Len(f))

\* the indices 1..n in order
Indices(n) == [i \in 1..n |-> i]

(***************************************************************************)
(* Characters.                                                             *)
(***************************************************************************)
UpperCase == <<"A", "B", "C", "D", "E", "F", "G", "H", "I", "J", "K", "L", "M",
               "N", "O", "P", "Q", "R", "S", "T", "U", "V", "W", "X", "Y", "Z">>
LowerCase == <<"a", "b", "c", "d", "e", "f", "g", "h", "i", "j", "k", "l", "m",
               "n", "o", "p", "q", "r", "s", "t", "u", "v", "w", "x", "y", "z">>
Letters == {LowerCase[i] : i \in 1..26}
\* the characters the regular expression class \s matches
Whitespace == {" ", "\t", "\n", "\r", "\f"}

\* the token to_tensor pads with
PadToken == <<"<", "p", "a", "d", ">">>

(***************************************************************************)
(* preprocess_text, Chapter-13.ipynb cell 15.                              *)
(***************************************************************************)
\* the length given to tf.strings.substr
SubstrLen == 300
\* the row width written into `shape`
ShapeWidth == 50
\* the default of the parameter n_words
DefaultNWords == 50

\* tf.strings.substr(s, pos, len): at most len characters from position pos
StringsSubstr(s, pos, len) == SubSeq(s, pos + 1, Min(Len(s), pos + len))

LowerChar(c) ==
    IF \E i \in 1..26 : UpperCase[i] = c
    THEN LowerCase[CHOOSE i \in 1..26 : UpperCase[i] = c]
    ELSE c

\* tf.strings.lower(s)
StringsLower(s) == Dense([i \in 1..Len(s) |-> LowerChar(s[i])])

\* first index >= i of s that holds no whitespace (Len(s) + 1 when none)
RECURSIVE SkipWhitespace(_, _)
SkipWhitespace(s, i) ==
    IF i <= Len(s) /\ s[i] \in Whitespace THEN SkipWhitespace(s, i + 1) ELSE i

\* the index of the last character of a match of <br\s*/?> that starts at
\* index i of s, 0 when there is none
MatchBr(s, i) ==
    IF i + 2 <= Len(s) /\ s[i] = "<" /\ s[i + 1] = "b" /\ s[i + 2] = "r"
    THEN LET j == SkipWhitespace(s, i + 3)
             k == IF j <= Len(s) /\ s[j] = "/" THEN j + 1 ELSE j
         IN  IF k <= Len(s) /\ s[k] = ">" THEN k ELSE 0
    ELSE 0

\* tf.strings.regex_replace(s, '<br\s*/?>', ' '): every match is replaced by
\* one blank.  A match holds "<" only as its first character, so no two
\* matches overlap and every index where one starts is replaced.
RegexReplaceBr(s) ==
    LET starts == {p \in 1..Len(s) : s[p] = "<" /\ MatchBr(s, p) > 0}
        inside(i) == \E p \in starts : p < i /\ i <= MatchBr(s, p)
        kept == SelectSeq(Indices(Len(s)), LAMBDA i : ~inside(i))
    IN  Dense([n \in 1..Len(kept) |->
                  IF kept[n] \in starts THEN " " ELSE s[kept[n]]])

\* tf.strings.regex_replace(s, '[^a-z]', ' ')
RegexReplaceNonLetters(s) ==
    Dense([i \in 1..Len(s) |-> IF s[i] \in Letters THEN s[i] ELSE " "])

\* tf.strings.split(s): the maximal runs of non-whitespace, in order
StringsSplit(s) ==
    LET first(i) == s[i] \notin Whitespace /\ (i = 1 \/ s[i - 1] \in Whitespace)
        last(i) == s[i] \notin Whitespace /\ (i = Len(s) \/ s[i + 1] \in Whitespace)
        firsts == SelectSeq(Indices(Len(s)), first)
        lasts == SelectSeq(Indices(Len(s)), last)
    IN  Dense([n \in 1..Len(firsts) |-> SubSeq(s, firsts[n], lasts[n])])

\* one row of RaggedTensor.to_tensor(shape = <<rows, width>>, default_value):
\* cut or padded to width
ToTensorRow(row, width, default_value) ==
    SubSeq(row, 1, Min(Len(row), width))
        \o [j \in 1..(width - Min(Len(row), width)) |-> default_value]

\* preprocess_text(X_batch, n_words): the shape is built from the literal 50,
\* n_words is not read.  Every statement works row by row, Z1 to Z5 are the
\* values of Z in row r.
preprocess_text(batch, nwords) ==
    LET shape == <<Len(batch) * 1 + 0, Len(batch) * 0 + ShapeWidth>>
    IN  Dense([r \in 1..shape[1] |->
            LET Z1 == StringsSubstr(batch[r], 0, SubstrLen)
                Z2 == StringsLower(Z1)
                Z3 == RegexReplaceBr(Z2)
                Z4 == RegexReplaceNonLetters(Z3)
                Z5 == StringsSplit(Z4)
            IN  ToTensorRow(Z5, shape[2], PadToken)])

(***************************************************************************)
(* get_vocabulary, Chapter-13.ipynb cell 17.  A Counter is the sequence of *)
(* its entries in insertion order.                                         *)
(***************************************************************************)
\* the words of a tensor, row after row
RECURSIVE FlattenRows(_, _)
FlattenRows(rows, r) ==
    IF r > Len(rows) THEN <<>> ELSE rows[r] \o FlattenRows(rows, r + 1)

\* the Counter the two loops of get_vocabulary build: an entry for every word
\* that is not <pad>, made when the word is first met, counting its
\* occurrences
CountWords(preprocessed_reviews) ==
    LET words == SelectSeq(FlattenRows(preprocessed_reviews, 1),
                           LAMBDA word : word # PadToken)
        met_first(i) == \A j \in 1..(i - 1) : words[j] # words[i]
        firsts == SelectSeq(Indices(Len(words)), met_first)
    IN  Dense([n \in 1..Len(firsts) |->
            [word |-> words[firsts[n]],
             count |-> Cardinality({j \in 1..Len(words) :
                                       words[j] = words[firsts[n]]})]])

\* InsertByCount as an unstable sort would do it: the entry goes in front of
\* the entries of the same count
InsertByCountInFront(sorted, entry) ==
    LET p == Cardinality({i \in 1..Len(sorted) : sorted[i].count > entry.count})
    IN  SubSeq(sorted, 1, p) \o <<entry>> \o SubSeq(sorted, p + 1, Len(sorted))

\* one entry put into a sequence sorted by descending count, behind the
\* entries of the same count
InsertByCount(sorted, entry) ==
    LET p == Cardinality({i \in 1..Len(sorted) : sorted[i].count >= entry.count})
    IN  SubSeq(sorted, 1, p) \o <<entry>> \o SubSeq(sorted, p + 1, Len(sorted))

\* sorted(counter.items(), key = count, reverse = True), a stable sort: the
\* first i entries of the counter, sorted
RECURSIVE SortByCount(_, _)
SortByCount(counter, i) ==
    IF i = 0 THEN <<>>
    ELSE InsertByCount(SortByCount(counter, i - 1), counter[i])

\* most_common called without n: every entry
most_common_all(counter, n) == SortByCount(counter, Len(counter))

\* Counter.most_common(n): the n entries of highest count, highest first, equal
\* counts in insertion order
most_common(counter, n) ==
    LET sorted == SortByCount(counter, Len(counter))
    IN  SubSeq(sorted, 1, Min(n, Len(sorted)))

get_vocabulary(sample, max_size) ==
    LET preprocessed_reviews == preprocess_text(sample, DefaultNWords)
        counter == CountWords(preprocessed_reviews)
        common == most_common(counter, max_size)
    IN  <<PadToken>> \o [i \in 1..Len(common) |-> common[i].word]

(***************************************************************************)
(* TextVectorization, Chapter-13.ipynb cell 18.  The lookup table is the   *)
(* pair (vocab, n_oov_buckets): KeyValueTensorInitializer gives the word   *)
(* at index i of vocab the id i - 1 (tf.range), StaticVocabularyTable      *)
(* gives any other key the id len(vocab) + fingerprint(key) mod            *)
(* n_oov_buckets.  The fingerprint of a key is fixed but unknown: a call   *)
(* picks the fingerprint of every out-of-vocabulary key.                   *)
(***************************************************************************)
InVocabulary(words, key) == \E i \in 1..Len(words) : words[i] = key

TableLookup(words, num_oov_buckets, fingerprint, key) ==
    IF InVocabulary(words, key)
    THEN (CHOOSE i \in 1..Len(words) : words[i] = key) - 1
    ELSE Len(words) + (fingerprint[key] % num_oov_buckets)

\* the keys of a tensor that are not in the vocabulary
OovKeys(words, tensor) ==
    UNION {{tensor[r][j] : j \in 1..Len(tensor[r])} : r \in 1..Len(tensor)}
        \ {words[i] : i \in 1..Len(words)}

\* self.table.lookup(preprocessed_inputs)
LookupTensor(words, num_oov_buckets, fingerprint, tensor) ==
    [r \in 1..Len(tensor) |->
        [j \in 1..Len(tensor[r]) |->
            TableLookup(words, num_oov_buckets, fingerprint, tensor[r][j])]]

(***************************************************************************)
(* BagOfWords, Chapter-13.ipynb cells 21 and 22.                           *)
(***************************************************************************)
\* n_tokens = max_vocabulary_size + n_oov_buckets + 1
n_tokens == max_vocabulary_size + n_oov_buckets + 1

\* tf.one_hot(ids, depth): a vector of depth entries for every id, 1 at index
\* id (counted from 0) and 0 elsewhere; all 0 for an id outside 0..depth-1
OneHot(ids, depth) ==
    [r \in 1..Len(ids) |->
        [j \in 1..Len(ids[r]) |->
            [k \in 1..depth |-> IF ids[r][j] = k - 1 THEN 1 ELSE 0]]]

\* the sum of the entries k of the vectors lo..hi of a row
RECURSIVE SumRange(_, _, _, _)
SumRange(tensor_row, k, lo, hi) ==
    IF lo > hi THEN 0
    ELSE IF lo = hi THEN tensor_row[lo][k]
    ELSE LET mid == (lo + hi) \div 2
         IN  SumRange(tensor_row, k, lo, mid) + SumRange(tensor_row, k, mid + 1, hi)

\* tf.reduce_sum(one_hot, axis=1)
ReduceSumAxis1(one_hot, depth) ==
    [r \in 1..Len(one_hot) |->
        [k \in 1..depth |-> SumRange(one_hot[r], k, 1, Len(one_hot[r]))]]

\* BagOfWords.call without the slice: column 0 is kept
BagOfWordsCallUnsliced(inputs, depth) ==
    ReduceSumAxis1(OneHot(inputs, depth), depth)

\* BagOfWords(depth).call(inputs): the slice [:, 1:] drops column 0
BagOfWordsCall(inputs, depth) ==
    LET one_hot == OneHot(inputs, depth)
        summed == ReduceSumAxis1(one_hot, depth)
    IN  [r \in 1..Len(summed) |-> SubSeq(summed[r], 2, depth)]

(***************************************************************************)
(* The reviews the cells are run on.                                       *)
(***************************************************************************)
RECURSIVE RepeatString(_, _)
RepeatString(s, k) == IF k = 0 THEN <<>> ELSE s \o RepeatString(s, k - 1)

\* X_example of cell 16
ReviewGreat ==
    <<"I", "t", "'", "s", " ", "a", " ", "g", "r", "e", "a", "t", ",", " ",
      "g", "r", "e", "a", "t", " ", "m", "o", "v", "i", "e", "!", " ", "I", " ",
      "l", "o", "v", "e", "d", " ", "i", "t", ".">>
ReviewTerrible ==
    <<"I", "t", " ", "w", "a", "s", " ", "t", "e", "r", "r", "i", "b", "l", "e",
      ",", " ", "r", "u", "n", " ", "a", "w", "a", "y", "!", "!", "!">>
\* line breaks in three spellings, an unclosed one, and the text <pad>
ReviewTags ==
    <<"a", "<", "B", "R", " ", "/", ">", "b", "<", "b", "r", ">", "a", "<", "b",
      "r", "\t", ">", "<", "p", "a", "d", ">", " ", "<", "b", "r">>
\* 60 words: more than a row holds
ReviewManyWords == RepeatString(<<"b", " ", "a", " ">>, 30)
\* 306 characters: more than substr keeps, the cut falls inside a word
ReviewManyChars ==
    RepeatString(<<"T", "e", "r", "r", "i", "b", "l", "e", " ">>, 34)
ReviewEmpty == <<>>
ReviewShort == <<"I", "t", " ", "w", "a", "s", " ", "g", "r", "e", "a", "t">>

\* the reviews adapt() is given, the reviews call() is given, and the reviews
\* preprocess_text is given on its own
SampleReviews == {ReviewGreat, ReviewTerrible, ReviewTags}
InputReviews == {ReviewManyWords, ReviewEmpty, ReviewShort}
Reviews == SampleReviews \cup InputReviews \cup {ReviewManyChars}

\* the most reviews in a batch given to adapt() and to call()
MaxSampleBatch == 2
MaxInputBatch == 1
\* the largest constructor arguments of TextVectorization
MaxVocabularySize == 2
MaxOovBuckets == 2
\* the longest row of ids given to BagOfWords on its own
MaxIdRow == 3
\* the largest n_words given to preprocess_text
MaxNWords == 51

Batches(reviews, max) == UNION {[1..n -> reviews] : n \in 1..max}

(***************************************************************************)
(* Chapter 13, cells 19 and 20: a TextVectorization layer is constructed,  *)
(* adapted to a sample and called.                                         *)
(***************************************************************************)

tvInit ==
    /\ tv_pc = "new"
    /\ max_vocabulary_size \in 1..MaxVocabularySize
    /\ n_oov_buckets \in 1..MaxOovBuckets
    /\ data_sample = <<>>
    /\ vocab = <<>>
    /\ tv_inputs = <<>>
    /\ tv_ids = <<>>
    /\ bow_out = <<>>

\* text_vectorization.adapt(sample)
Adapt(sample) ==
    /\ tv_pc = "new"
    /\ data_sample' = sample
    /\ vocab' = get_vocabulary(sample, max_vocabulary_size)
    /\ tv_pc' = "adapted"
    /\ UNCHANGED <<max_vocabulary_size, n_oov_buckets, tv_inputs, tv_ids, bow_out>>
    /\ UNCHANGED notTv

\* text_vectorization(inputs)
Call(inputs) ==
    /\ tv_pc = "adapted"
    /\ LET preprocessed_inputs == preprocess_text(inputs, DefaultNWords)
       IN  \E fingerprint \in [OovKeys(vocab, preprocessed_inputs) ->
                                  0..(n_oov_buckets - 1)] :
              tv_ids' = LookupTensor(vocab, n_oov_buckets, fingerprint,
                                     preprocessed_inputs)
    /\ tv_inputs' = inputs
    /\ tv_pc' = "called"
    /\ UNCHANGED <<max_vocabulary_size, n_oov_buckets, data_sample, vocab, bow_out>>
    /\ UNCHANGED notTv

InitText == tvInit /\ idleButTv

NextText ==
    \/ \E sample \in Batches(SampleReviews, MaxSampleBatch) : Adapt(sample)
    \/ \E inputs \in Batches(InputReviews, MaxInputBatch) : Call(inputs)

SpecText == InitText /\ [][NextText]_vars

(***************************************************************************)
(* Chapter 13, cells 21 to 23: BagOfWords(n_tokens) is called on a batch   *)
(* of rows of token ids.                                                   *)
(***************************************************************************)
\* the ids the rows are made of: padding, the first word of the vocabulary and
\* the last out-of-vocabulary bucket
IdValues(depth) == {0, 1, depth - 1}

\* the batches of at most MaxInputBatch rows of one width, of ids below depth
IdBatches(depth) ==
    UNION {[1..n -> [1..w -> IdValues(depth)]] :
              n \in 1..MaxInputBatch, w \in 0..MaxIdRow}

\* bag_of_words(ids)
Bag ==
    /\ tv_pc = "called"
    /\ bow_out' = BagOfWordsCall(tv_ids, n_tokens)
    /\ tv_pc' = "bagged"
    /\ UNCHANGED <<max_vocabulary_size, n_oov_buckets, data_sample, vocab,
                   tv_inputs, tv_ids>>
    /\ UNCHANGED notTv

InitBag ==
    /\ tv_pc = "called"
    /\ max_vocabulary_size \in 1..MaxVocabularySize
    /\ n_oov_buckets \in 1..MaxOovBuckets
    /\ data_sample = <<>>
    /\ vocab = <<>>
    /\ tv_inputs = <<>>
    /\ tv_ids \in IdBatches(n_tokens)
    /\ bow_out = <<>>
    /\ idleButTv

NextBag == Bag

SpecBag == InitBag /\ [][NextBag]_vars

(***************************************************************************)
(* Chapter 13, cell 15: preprocess_text called with both its parameters.   *)
(***************************************************************************)
InitPreprocess ==
    /\ pp_pc = "start"
    /\ X_batch \in Batches(Reviews, MaxInputBatch)
    /\ n_words \in 1..MaxNWords
    /\ Z = <<>>
    /\ idleButPp

\* Z = preprocess_text(X_batch, n_words)
Preprocess ==
    /\ pp_pc = "start"
    /\ Z' = preprocess_text(X_batch, n_words)
    /\ pp_pc' = "done"
    /\ UNCHANGED <<X_batch, n_words>>
    /\ UNCHANGED notPp

NextPreprocess == Preprocess

SpecPreprocess == InitPreprocess /\ [][NextPreprocess]_vars


(***************************************************************************)
(* Chapter 12, exercise 13: the training parameters and the custom         *)
(* training loop.  The loop of 13.b has the same statements around the     *)
(* gradient step.                                                          *)
(***************************************************************************)
MaxEpochs == 3
MaxBatchSize == 3
MaxTrainSize == 5

\* n_steps = len(X_train) // batch_size
NSteps(len, size) == len \div size

\* the keys the body of the inner loop leaves in status
StepKeys == {"loss", "sparse_categorical_accuracy"}
\* the keys the validation adds
ValidationKeys == {"val_loss", "val_accuracy"}

InitTraining ==
    /\ tl_pc = "epoch"
    /\ n_epochs \in 1..MaxEpochs
    /\ batch_size \in 1..MaxBatchSize
    /\ len_X_train \in 0..MaxTrainSize
    /\ n_steps = NSteps(len_X_train, batch_size)
    /\ epoch = 0
    /\ step = 0
    /\ status = Unbound
    /\ n_iterations = 0
    /\ n_reports = 0
    /\ idleButTl

\* for epoch in range(1, n_epochs + 1): the next epoch begins and the inner
\* range starts over
EpochBegin ==
    /\ tl_pc = "epoch"
    /\ epoch < n_epochs
    /\ epoch' = epoch + 1
    /\ step' = 0
    /\ tl_pc' = "steps"
    /\ UNCHANGED <<n_epochs, batch_size, len_X_train, n_steps, status,
                   n_iterations, n_reports>>
    /\ UNCHANGED notTl

\* for step in range(1, n_steps + 1): one pass through the body, which binds
\* status to a new dict and fills it with the loss and the metric
TrainStep ==
    /\ tl_pc = "steps"
    /\ step < n_steps
    /\ step' = step + 1
    /\ status' = [bound |-> TRUE, keys |-> StepKeys]
    /\ n_iterations' = n_iterations + 1
    /\ UNCHANGED <<tl_pc, n_epochs, batch_size, len_X_train, n_steps, epoch,
                   n_reports>>
    /\ UNCHANGED notTl

\* after the inner loop: status['val_loss'] = ..., status['val_accuracy'] =
\* ..., the report is printed and the metrics are reset
Validation ==
    /\ tl_pc = "steps"
    /\ step = n_steps
    /\ status.bound
    /\ status' = [status EXCEPT !.keys = @ \cup ValidationKeys]
    /\ n_reports' = n_reports + 1
    /\ tl_pc' = "epoch"
    /\ UNCHANGED <<n_epochs, batch_size, len_X_train, n_steps, epoch, step,
                   n_iterations>>
    /\ UNCHANGED notTl

\* after the inner loop, status not bound: status['val_loss'] = ... raises
\* NameError and the cell stops
ValidationNameError ==
    /\ tl_pc = "steps"
    /\ step = n_steps
    /\ ~status.bound
    /\ tl_pc' = "NameError"
    /\ UNCHANGED <<n_epochs, batch_size, len_X_train, n_steps, epoch, step,
                   status, n_iterations, n_reports>>
    /\ UNCHANGED notTl

\* the range of the outer loop is exhausted
LoopEnd ==
    /\ tl_pc = "epoch"
    /\ epoch = n_epochs
    /\ tl_pc' = "done"
    /\ UNCHANGED <<n_epochs, batch_size, len_X_train, n_steps, epoch, step,
                   status, n_iterations, n_reports>>
    /\ UNCHANGED notTl

NextTraining ==
    \/ EpochBegin
    \/ TrainStep
    \/ Validation
    \/ ValidationNameError
    \/ LoopEnd

SpecTraining == InitTraining /\ [][NextTraining]_vars


(***************************************************************************)
(* Chapter 13, exercise 9: the dataset load_dataset(filepaths) returns is  *)
(* iterated once.  The files are the ones save_tfrecords wrote: record idx *)
(* is in file idx % n_records.  The order of the records is left out: the  *)
(* stages hold sets of records.                                            *)
(***************************************************************************)
MaxCpuCount == 2
MaxFiles == 2
MaxItems == 3
MaxLoadBatchSize == 2
MaxShuffleBufferSize == 2
MaxIterations == 2

\* save_tfrecords: the records written to file f (files numbered from 0)
FileRecords(f, items, files) == {idx \in 0..(items - 1) : idx % files = f}

\* the k-th record of file f, k counted from 0
RecordAt(f, k, files) == f + k * files

\* TFRecordDataset(filepaths, num_parallel_reads=os.cpu_count())
num_parallel_reads == cpu_count

\* the parallel interleave behind TFRecordDataset reads num_parallel_reads
\* files in its cycle and twice as many ahead of it
prefetch_input_elements == 2 * num_parallel_reads

\* as num_parallel_calls, with one call more than the CPUs
num_parallel_calls_plus_one == cpu_count + 1

\* dataset.map(preprocess, num_parallel_calls=os.cpu_count())
num_parallel_calls == cpu_count

\* dataset.prefetch(1)
PrefetchBufferSize == 1

\* the records of the files that have not been read in this iteration
Unread == UNION {{RecordAt(f, k, n_files) :
                     k \in ld_next[f + 1]..(Cardinality(FileRecords(f, n_items, n_files)) - 1)} :
                 f \in 0..(n_files - 1)}

\* if cache: once an iteration has read the files to their end, the next
\* ones take the records from the cache
FromCache == ld_from_cache

\* the iteration has read every file to its end
AllRead == Unread = {} /\ ld_open = {}

\* if shuffle_buffer_size: None and 0 leave the dataset unshuffled
Shuffled == shuffle_buffer_size # 0

\* the records that have not come out of TFRecordDataset, or of the cache,
\* in this iteration
Source == IF FromCache THEN ld_unserved ELSE Unread

\* the records map can take: those read, or with shuffle those of the
\* buffer once it is full or nothing is left to fill it with
MapInput ==
    IF ~Shuffled THEN ld_records
    ELSE IF \/ Cardinality(ld_shuffle) = shuffle_buffer_size
            \/ Source \cup ld_records = {}
         THEN ld_shuffle
         ELSE {}

InitLoad ==
    /\ ld_pc = "iterating"
    /\ cpu_count \in 1..MaxCpuCount
    /\ n_files \in 1..MaxFiles
    /\ n_items \in 0..MaxItems
    /\ ld_batch_size \in 1..MaxLoadBatchSize
    /\ shuffle_buffer_size \in 0..MaxShuffleBufferSize
    /\ cache \in BOOLEAN
    /\ ld_pass = 1
    /\ ld_cached = {}
    /\ ld_from_cache = FALSE
    /\ ld_unserved = {}
    /\ ld_shuffle = {}
    /\ ld_next = [f \in 1..n_files |-> 0]
    /\ ld_open = {}
    /\ ld_records = {}
    /\ ld_running = {}
    /\ ld_parsed = {}
    /\ ld_prefetched = <<>>
    /\ ld_consumed = <<>>
    /\ idleButLd

ldParameters == <<cpu_count, n_files, n_items, ld_batch_size,
                  shuffle_buffer_size, cache>>

\* a reader starts on a file that has records left, if fewer files are
\* being read than the cycle and the files ahead of it make
OpenFile(f) ==
    /\ ld_pc = "iterating"
    /\ ~FromCache
    /\ f \in 0..(n_files - 1)
    /\ f \notin ld_open
    /\ ld_next[f + 1] < Cardinality(FileRecords(f, n_items, n_files))
    /\ Cardinality(ld_open) < num_parallel_reads + prefetch_input_elements
    /\ ld_open' = ld_open \cup {f}
    /\ UNCHANGED <<ld_pc, ldParameters, ld_pass, ld_cached, ld_from_cache, ld_unserved,
                   ld_shuffle, ld_next, ld_records, ld_running, ld_parsed,
                   ld_prefetched, ld_consumed>>
    /\ UNCHANGED notLd

\* the reader of file f reads the next record of the file, which cache()
\* keeps on its way if cache is true; after the last record the reader
\* leaves the file
ReadRecord(f) ==
    /\ ld_pc = "iterating"
    /\ f \in ld_open
    /\ ld_records' = ld_records \cup {RecordAt(f, ld_next[f + 1], n_files)}
    /\ ld_cached' = IF cache
                      THEN ld_cached \cup {RecordAt(f, ld_next[f + 1], n_files)}
                      ELSE ld_cached
    /\ ld_next' = [ld_next EXCEPT ![f + 1] = @ + 1]
    /\ ld_open' = IF ld_next'[f + 1] = Cardinality(FileRecords(f, n_items, n_files))
                    THEN ld_open \ {f} ELSE ld_open
    /\ UNCHANGED <<ld_pc, ldParameters, ld_pass, ld_from_cache, ld_unserved,
                   ld_shuffle, ld_running, ld_parsed, ld_prefetched,
                   ld_consumed>>
    /\ UNCHANGED notLd

\* cache() hands on a record it holds, no file is read
ServeCached(tfrecord) ==
    /\ ld_pc = "iterating"
    /\ FromCache
    /\ tfrecord \in ld_unserved
    /\ ld_unserved' = ld_unserved \ {tfrecord}
    /\ ld_records' = ld_records \cup {tfrecord}
    /\ UNCHANGED <<ld_pc, ldParameters, ld_pass, ld_cached, ld_from_cache,
                   ld_shuffle, ld_next, ld_open, ld_running, ld_parsed,
                   ld_prefetched, ld_consumed>>
    /\ UNCHANGED notLd

\* shuffle(shuffle_buffer_size) takes a record into its buffer, which holds
\* shuffle_buffer_size records at most
FillShuffleBuffer(tfrecord) ==
    /\ ld_pc = "iterating"
    /\ Shuffled
    /\ tfrecord \in ld_records
    /\ Cardinality(ld_shuffle) < shuffle_buffer_size
    /\ ld_records' = ld_records \ {tfrecord}
    /\ ld_shuffle' = ld_shuffle \cup {tfrecord}
    /\ UNCHANGED <<ld_pc, ldParameters, ld_pass, ld_cached, ld_from_cache, ld_unserved,
                   ld_next, ld_open, ld_running, ld_parsed, ld_prefetched,
                   ld_consumed>>
    /\ UNCHANGED notLd

\* map starts preprocess(tfrecord) on a record, any record of the buffer if
\* the dataset is shuffled, if fewer than num_parallel_calls calls are
\* running
StartPreprocess(tfrecord) ==
    /\ ld_pc = "iterating"
    /\ tfrecord \in MapInput
    /\ Cardinality(ld_running) < num_parallel_calls
    /\ IF Shuffled
         THEN ld_shuffle' = ld_shuffle \ {tfrecord} /\ ld_records' = ld_records
         ELSE ld_records' = ld_records \ {tfrecord} /\ ld_shuffle' = ld_shuffle
    /\ ld_running' = ld_running \cup {tfrecord}
    /\ UNCHANGED <<ld_pc, ldParameters, ld_pass, ld_cached, ld_from_cache, ld_unserved,
                   ld_next, ld_open, ld_parsed, ld_prefetched, ld_consumed>>
    /\ UNCHANGED notLd

\* a preprocess call returns
FinishPreprocess(tfrecord) ==
    /\ ld_pc = "iterating"
    /\ tfrecord \in ld_running
    /\ ld_running' = ld_running \ {tfrecord}
    /\ ld_parsed' = ld_parsed \cup {tfrecord}
    /\ UNCHANGED <<ld_pc, ldParameters, ld_pass, ld_cached, ld_from_cache, ld_unserved,
                   ld_shuffle, ld_next, ld_open, ld_records, ld_prefetched,
                   ld_consumed>>
    /\ UNCHANGED notLd

\* batch(batch_size) and prefetch(1): a batch of batch_size elements, or of
\* the last elements, goes into the prefetch buffer when it has room
PrefetchBatch(batch) ==
    /\ ld_pc = "iterating"
    /\ batch \subseteq ld_parsed
    /\ batch # {}
    /\ \/ Cardinality(batch) = ld_batch_size
       \/ /\ Cardinality(batch) < ld_batch_size
          /\ batch = ld_parsed
          /\ Source \cup ld_records \cup ld_shuffle \cup ld_running = {}
    /\ Len(ld_prefetched) < PrefetchBufferSize
    /\ ld_parsed' = ld_parsed \ batch
    /\ ld_prefetched' = Append(ld_prefetched, batch)
    /\ UNCHANGED <<ld_pc, ldParameters, ld_pass, ld_cached, ld_from_cache, ld_unserved,
                   ld_shuffle, ld_next, ld_open, ld_records, ld_running,
                   ld_consumed>>
    /\ UNCHANGED notLd

\* for X_batch, y_batch in dataset: the iteration takes the next batch
ConsumeBatch ==
    /\ ld_pc = "iterating"
    /\ ld_prefetched # <<>>
    /\ ld_consumed' = Append(ld_consumed, Head(ld_prefetched))
    /\ ld_prefetched' = Tail(ld_prefetched)
    /\ UNCHANGED <<ld_pc, ldParameters, ld_pass, ld_cached, ld_from_cache, ld_unserved,
                   ld_shuffle, ld_next, ld_open, ld_records, ld_running,
                   ld_parsed>>
    /\ UNCHANGED notLd

\* the dataset is exhausted
EndOfSequence ==
    /\ ld_pc = "iterating"
    /\ Source \cup ld_records \cup ld_shuffle \cup ld_running \cup ld_parsed = {}
    /\ ld_prefetched = <<>>
    /\ ld_pc' = "exhausted"
    /\ UNCHANGED <<ldParameters, ld_pass, ld_cached, ld_from_cache, ld_unserved, ld_shuffle,
                   ld_next, ld_open, ld_records, ld_running, ld_parsed,
                   ld_prefetched, ld_consumed>>
    /\ UNCHANGED notLd

\* the iteration is given up before the dataset is exhausted
\* (train_set.take(100)): what the stages hold is dropped; a cache that is
\* being filled is dropped too unless the files were read to their end, and
\* then it is kept or not as the stages in front were ahead or not
DropIterator ==
    /\ ld_pc = "iterating"
    /\ ld_pc' = "dropped"
    /\ ld_cached' \in IF FromCache THEN {ld_cached}
                      ELSE IF cache /\ AllRead THEN {ld_cached, {}}
                      ELSE {{}}
    /\ ld_open' = {}
    /\ ld_unserved' = {}
    /\ ld_records' = {}
    /\ ld_shuffle' = {}
    /\ ld_running' = {}
    /\ ld_parsed' = {}
    /\ ld_prefetched' = <<>>
    /\ UNCHANGED <<ldParameters, ld_pass, ld_from_cache, ld_next, ld_consumed>>
    /\ UNCHANGED notLd

\* the dataset is iterated once more (the next epoch of fit, or fit after
\* take): from the cache if cache is true and the cache is complete, else
\* from the files again
NextIteration ==
    /\ ld_pc \in {"exhausted", "dropped"}
    /\ ld_pass < MaxIterations
    /\ ld_pass' = ld_pass + 1
    /\ ld_pc' = "iterating"
    /\ ld_consumed' = <<>>
    /\ IF cache /\ ld_cached = 0..(n_items - 1)
         THEN /\ ld_from_cache' = TRUE
              /\ ld_unserved' = ld_cached
              /\ ld_cached' = ld_cached
              /\ ld_next' = ld_next
         ELSE /\ ld_from_cache' = FALSE
              /\ ld_unserved' = {}
              /\ ld_cached' = {}
              /\ ld_next' = [f \in 1..n_files |-> 0]
    /\ UNCHANGED <<ldParameters, ld_shuffle, ld_open, ld_records, ld_running,
                   ld_parsed, ld_prefetched>>
    /\ UNCHANGED notLd

NextLoad ==
    \/ \E f \in 0..(MaxFiles - 1) : OpenFile(f)
    \/ \E f \in 0..(MaxFiles - 1) : ReadRecord(f)
    \/ \E tfrecord \in 0..(MaxItems - 1) : ServeCached(tfrecord)
    \/ \E tfrecord \in 0..(MaxItems - 1) : FillShuffleBuffer(tfrecord)
    \/ \E tfrecord \in 0..(MaxItems - 1) : StartPreprocess(tfrecord)
    \/ \E tfrecord \in 0..(MaxItems - 1) : FinishPreprocess(tfrecord)
    \/ \E batch \in SUBSET (0..(MaxItems - 1)) : PrefetchBatch(batch)
    \/ ConsumeBatch
    \/ EndOfSequence
    \/ DropIterator
    \/ NextIteration

SpecLoad == InitLoad /\ [][NextLoad]_vars


(***************************************************************************)
(* A code cell in which an operation raises.  pandas 08, cell 3: a list    *)
(* is bound to data and a list comprehension calls s.capitalize() on its   *)
(* entries.  Chapter 13, cell 5: three calls of save_tfrecords, in which   *)
(* opening a writer or writing an element may fail.                        *)
(***************************************************************************)
MaxList == 3
MaxRecords == 2
MaxDatasetSize == 2

\* the statements of Chapter 13, cell 5
NStatements == 3

\* an entry of a list: None or a string
None == [none |-> TRUE, s |-> <<>>]
Str(s) == [none |-> FALSE, s |-> s]

UpperChar(c) ==
    IF \E i \in 1..26 : LowerCase[i] = c
    THEN UpperCase[CHOOSE i \in 1..26 : LowerCase[i] = c]
    ELSE c

\* str.capitalize(): the first character in upper case, the others in lower
\* case
Capitalize(s) ==
    IF s = <<>> THEN <<>>
    ELSE <<UpperChar(s[1])>> \o StringsLower(SubSeq(s, 2, Len(s)))

\* as HasNoCapitalize, were None to have the method
HasNoCapitalizeNever(entry) == FALSE

\* entry.capitalize raises AttributeError: None has no such attribute
HasNoCapitalize(entry) == entry.none

\* the entries of the lists: two of the names of the cell, the empty string
\* and None
Entries ==
    {Str(<<"g", "U", "I", "D", "O">>), Str(<<"P", "a", "u", "l">>), Str(<<>>),
     None}
Lists == UNION {[1..n -> Entries] : n \in 0..MaxList}

InitCells ==
    /\ cell \in {"listcomp", "save_tfrecords"}
    /\ lc_pc = IF cell = "listcomp" THEN "start" ELSE "idle"
    /\ lc_literal \in IF cell = "listcomp" THEN Lists ELSE {<<>>}
    /\ data = <<>>
    /\ lc_result = <<>>
    /\ lc_calls = 0
    /\ lc_out = NoValue
    /\ sv_pc = IF cell = "save_tfrecords" THEN "call" ELSE "idle"
    /\ sv_stmt = IF cell = "save_tfrecords" THEN 1 ELSE 0
    /\ n_records \in IF cell = "save_tfrecords" THEN 1..MaxRecords ELSE {0}
    /\ sv_len \in IF cell = "save_tfrecords" THEN 0..MaxDatasetSize ELSE {0}
    /\ writers = <<>>
    /\ sv_files = IF cell = "save_tfrecords"
                    THEN [k \in 1..NStatements |-> <<>>] ELSE <<>>
    /\ sv_idx = 0
    /\ sv_bound = {}
    /\ idleButCe

lcVars == <<lc_pc, lc_literal, data, lc_result, lc_calls, lc_out>>
svVars == <<sv_pc, sv_stmt, n_records, sv_len, writers, sv_files, sv_idx,
            sv_bound>>

\* data = [...]
BindData ==
    /\ lc_pc = "start"
    /\ data' = lc_literal
    /\ lc_pc' = "listcomp"
    /\ UNCHANGED <<cell, lc_literal, lc_result, lc_calls, lc_out, svVars>>
    /\ UNCHANGED notCe

\* [s.capitalize() for s in data]: the next s, on which capitalize can be
\* called
ListCompNext ==
    /\ lc_pc = "listcomp"
    /\ Len(lc_result) < Len(data)
    /\ ~HasNoCapitalize(data[Len(lc_result) + 1])
    /\ lc_result' = Append(lc_result, Str(Capitalize(data[Len(lc_result) + 1].s)))
    /\ lc_calls' = lc_calls + 1
    /\ UNCHANGED <<cell, lc_pc, lc_literal, data, lc_out, svVars>>
    /\ UNCHANGED notCe

\* the next s has no capitalize: looking the attribute up raises
\* AttributeError before anything is called; the exception leaves the
\* comprehension and the cell
ListCompRaises ==
    /\ lc_pc = "listcomp"
    /\ Len(lc_result) < Len(data)
    /\ HasNoCapitalize(data[Len(lc_result) + 1])
    /\ lc_result' = <<>>
    /\ lc_pc' = "AttributeError"
    /\ UNCHANGED <<cell, lc_literal, data, lc_calls, lc_out, svVars>>
    /\ UNCHANGED notCe

\* data is exhausted: the list is the value of the cell
ListCompValue ==
    /\ lc_pc = "listcomp"
    /\ Len(lc_result) = Len(data)
    /\ lc_out' = [produced |-> TRUE, value |-> lc_result]
    /\ lc_pc' = "displayed"
    /\ UNCHANGED <<cell, lc_literal, data, lc_result, lc_calls, svVars>>
    /\ UNCHANGED notCe

\* as CloseAll, were the writers not entered in an ExitStack: none is closed
CloseNone(ws) == ws

\* ExitStack.__exit__: every writer entered is closed
CloseAll(ws) == [i \in 1..Len(ws) |-> "closed"]

\* x_filepaths = save_tfrecords(name, x_set): the call begins, filepaths is
\* built, the ExitStack is entered
SaveCall ==
    /\ sv_pc = "call"
    /\ writers' = <<>>
    /\ sv_idx' = 0
    /\ sv_pc' = "open"
    /\ UNCHANGED <<cell, lcVars, sv_stmt, n_records, sv_len, sv_files, sv_bound>>
    /\ UNCHANGED notCe

\* stack.enter_context(tf.io.TFRecordWriter(path)) for the next path: the
\* file is created
OpenWriter ==
    /\ sv_pc = "open"
    /\ Len(writers) < n_records
    /\ writers' = Append(writers, "open")
    /\ sv_files' = [sv_files EXCEPT ![sv_stmt] = Append(@, <<>>)]
    /\ UNCHANGED <<cell, lcVars, sv_pc, sv_stmt, n_records, sv_len, sv_idx,
                   sv_bound>>
    /\ UNCHANGED notCe

\* TFRecordWriter(path) raises: the ExitStack closes the writers entered so
\* far and the exception leaves the call and the cell
OpenWriterRaises ==
    /\ sv_pc = "open"
    /\ Len(writers) < n_records
    /\ writers' = CloseAll(writers)
    /\ sv_pc' = "raised"
    /\ UNCHANGED <<cell, lcVars, sv_stmt, n_records, sv_len, sv_files, sv_idx,
                   sv_bound>>
    /\ UNCHANGED notCe

\* writers[idx % n_records].write(...) for the next element
WriteExample ==
    /\ sv_pc = "open"
    /\ Len(writers) = n_records
    /\ sv_idx < sv_len
    /\ sv_files' = [sv_files EXCEPT ![sv_stmt][(sv_idx % n_records) + 1] =
                                       Append(@, sv_idx)]
    /\ sv_idx' = sv_idx + 1
    /\ UNCHANGED <<cell, lcVars, sv_pc, sv_stmt, n_records, sv_len, writers,
                   sv_bound>>
    /\ UNCHANGED notCe

\* creating or writing the next element raises: the ExitStack closes all the
\* writers and the exception leaves the call and the cell
WriteExampleRaises ==
    /\ sv_pc = "open"
    /\ Len(writers) = n_records
    /\ sv_idx < sv_len
    /\ writers' = CloseAll(writers)
    /\ sv_pc' = "raised"
    /\ UNCHANGED <<cell, lcVars, sv_stmt, n_records, sv_len, sv_files, sv_idx,
                   sv_bound>>
    /\ UNCHANGED notCe

\* the dataset is exhausted: the ExitStack closes the writers, filepaths is
\* returned and bound, the next statement of the cell follows
SaveReturns ==
    /\ sv_pc = "open"
    /\ Len(writers) = n_records
    /\ sv_idx = sv_len
    /\ writers' = CloseAll(writers)
    /\ sv_bound' = sv_bound \cup {sv_stmt}
    /\ IF sv_stmt < NStatements
         THEN sv_stmt' = sv_stmt + 1 /\ sv_pc' = "call"
         ELSE sv_stmt' = sv_stmt /\ sv_pc' = "finished"
    /\ UNCHANGED <<cell, lcVars, n_records, sv_len, sv_files, sv_idx>>
    /\ UNCHANGED notCe

NextCells ==
    \/ BindData
    \/ ListCompNext
    \/ ListCompRaises
    \/ ListCompValue
    \/ SaveCall
    \/ OpenWriter
    \/ OpenWriterRaises
    \/ WriteExample
    \/ WriteExampleRaises
    \/ SaveReturns

SpecCells == InitCells /\ [][NextCells]_vars


(***************************************************************************)
(* pandas 08, cells 4 and 5: names = pd.Series(data) and                   *)
(* names.str.capitalize().                                                 *)
(***************************************************************************)
\* pd.Series(list): the entries under the labels 0, 1, ...
Series(list) == [index |-> Dense([i \in 1..Len(list) |-> i - 1]), values |-> list]

\* as StrCapitalize, the missing entries left out
StrCapitalizeDroppingNa(series) ==
    [index |-> series.index,
     values |-> LET present == SelectSeq(series.values, LAMBDA e : ~e.none)
                IN  Dense([i \in 1..Len(present) |-> Str(Capitalize(present[i].s))])]

\* series.str.capitalize(): capitalize mapped over the entries that are not
\* missing, the missing entries kept, under the same labels
StrCapitalize(series) ==
    [index |-> series.index,
     values |-> Dense([i \in 1..Len(series.values) |->
                    IF series.values[i].none THEN series.values[i]
                    ELSE Str(Capitalize(series.values[i].s))])]

InitStr ==
    /\ st_pc = "start"
    /\ st_data \in Lists
    /\ names = EmptySeries
    /\ st_out = EmptySeries
    /\ idleButSt

\* names = pd.Series(data)
MakeSeries ==
    /\ st_pc = "start"
    /\ names' = Series(st_data)
    /\ st_pc' = "series"
    /\ UNCHANGED <<st_data, st_out>>
    /\ UNCHANGED notSt

\* names.str.capitalize()
CallStrCapitalize ==
    /\ st_pc = "series"
    /\ st_out' = StrCapitalize(names)
    /\ st_pc' = "capitalized"
    /\ UNCHANGED <<st_data, names>>
    /\ UNCHANGED notSt

NextStr ==
    \/ MakeSeries
    \/ CallStrCapitalize

SpecStr == InitStr /\ [][NextStr]_vars


(***************************************************************************)
(* pandas 03, cells 9 and 13: A + B on two Series and on two DataFrames.   *)
(* The labels are integers, no label twice in an index.                    *)
(***************************************************************************)
MaxLabel == 2
MaxRows == 2

\* a value: a number or NaN
NaN == [nan |-> TRUE, v |-> 0]
Num(v) == [nan |-> FALSE, v |-> v]

\* x + y on two values
AddValues(x, y) == IF x.nan \/ y.nan THEN NaN ELSE Num(x.v + y.v)

\* the labels of a set in ascending order
SortedLabels(S) ==
    Dense([i \in 1..Cardinality(S) |->
              CHOOSE x \in S : Cardinality({y \in S : y < x}) = i - 1])

\* as IndexJoinOuter, were the union not sorted: the labels of self, then the
\* labels only other has
IndexJoinOuterUnsorted(self, other) ==
    self \o SelectSeq(other, LAMBDA label : \A i \in 1..Len(self) : self[i] # label)

\* self.join(other, how='outer'): self if other is empty, other if self is
\* empty, else the union of the two, which is sorted
IndexJoinOuter(self, other) ==
    IF Len(other) = 0 THEN self
    ELSE IF Len(self) = 0 THEN other
    ELSE SortedLabels({self[i] : i \in 1..Len(self)} \cup {other[i] : i \in 1..Len(other)})

\* the index both operands are given before the operation: their own if
\* they have equal indexes, else the outer join
AlignedIndex(left, right) ==
    IF left = right THEN left ELSE IndexJoinOuter(left, right)

\* where label is in index, 0 if nowhere
Position(index, label) ==
    IF \E i \in 1..Len(index) : index[i] = label
    THEN CHOOSE i \in 1..Len(index) : index[i] = label
    ELSE 0

\* series.reindex(index): the value of each label, NaN for a label the
\* series has not
ReindexSeries(series, index) ==
    [index |-> index,
     values |-> Dense([i \in 1..Len(index) |->
                    IF Position(series.index, index[i]) = 0 THEN NaN
                    ELSE series.values[Position(series.index, index[i])]])]

\* left + right on two Series
SeriesAdd(left, right) ==
    LET join_index == AlignedIndex(left.index, right.index)
        l == ReindexSeries(left, join_index)
        r == ReindexSeries(right, join_index)
    IN  [index |-> join_index,
         values |-> Dense([i \in 1..Len(join_index) |->
                        AddValues(l.values[i], r.values[i])])]

\* frame.reindex(index=index, columns=columns)
ReindexFrame(frame, index, columns) ==
    [index |-> index,
     columns |-> columns,
     values |-> Dense([i \in 1..Len(index) |-> Dense([j \in 1..Len(columns) |->
                    IF \/ Position(frame.index, index[i]) = 0
                       \/ Position(frame.columns, columns[j]) = 0
                    THEN NaN
                    ELSE frame.values[Position(frame.index, index[i])]
                                     [Position(frame.columns, columns[j])]])])]

\* left + right on two DataFrames
FrameAdd(left, right) ==
    LET join_index == AlignedIndex(left.index, right.index)
        join_columns == AlignedIndex(left.columns, right.columns)
        l == ReindexFrame(left, join_index, join_columns)
        r == ReindexFrame(right, join_index, join_columns)
    IN  [index |-> join_index,
         columns |-> join_columns,
         values |-> Dense([i \in 1..Len(join_index) |->
                        Dense([j \in 1..Len(join_columns) |->
                            AddValues(l.values[i][j], r.values[i][j])])])]

\* the indexes: the labels 0..MaxLabel, each once at most, in any order
Indexes ==
    {index \in UNION {[1..n -> 0..MaxLabel] : n \in 0..(MaxLabel + 1)} :
        \A i, j \in 1..Len(index) : index[i] = index[j] => i = j}

\* pd.Series([2, 4, 6, ...], index=index) and pd.Series([1, 3, 5, ...],
\* index=index), as long as the index
LeftSeries(index) ==
    [index |-> index, values |-> Dense([i \in 1..Len(index) |-> Num(2 * i)])]
RightSeries(index) ==
    [index |-> index, values |-> Dense([i \in 1..Len(index) |-> Num(2 * i - 1)])]

\* rng = np.random.RandomState(42): the numbers the generator gives from the
\* cell of A on, after the draws of ser and df; randint looks at their low
\* bits only, and the low five are kept
RawDraws ==
    <<1, 23, 11, 29, 5, 1, 31, 27, 20, 0, 11, 25, 21, 28, 11, 24, 16, 26, 26,
      30, 9, 31, 27, 27, 15, 14, 29, 29, 14, 29, 18, 11, 22, 19, 31, 24, 2, 4,
      18, 6, 20, 8, 6, 17, 3, 24, 27, 13, 17, 25, 8, 25, 20, 1, 19, 27, 14,
      27, 6, 11, 28, 7, 14, 2, 13, 16, 3, 17, 7, 3, 1, 29, 5, 21, 9, 3, 21,
      28, 30, 17>>

\* the smallest number 2^k - 1 that is not below n
RECURSIVE Mask(_)
Mask(n) == IF n = 0 THEN 0 ELSE 2 * Mask(n \div 2) + 1

\* the first place from pos on where the masked number is not above n: the
\* numbers before it are drawn and thrown away
RECURSIVE Accepted(_, _)
Accepted(pos, n) ==
    IF RawDraws[pos] % (Mask(n) + 1) <= n THEN pos ELSE Accepted(pos + 1, n)

\* rng.randint(low, high, size) with the generator at pos: the values drawn,
\* in the order they are drawn, and where the generator is afterwards
RECURSIVE Randint(_, _, _, _)
Randint(low, high, size, pos) ==
    IF size = 0 THEN [values |-> <<>>, pos |-> pos]
    ELSE LET k == Accepted(pos, high - low - 1)
             rest == Randint(low, high, size - 1, k + 1)
         IN  [values |-> <<low + (RawDraws[k] % (Mask(high - low - 1) + 1))>>
                             \o rest.values,
              pos |-> rest.pos]

\* pd.DataFrame(rng.randint(low, high, (rows, Len(columns))),
\* columns=columns) with the generator at pos: the rows are labelled 0, 1,
\* ..., the values fill the frame row by row
Frame(rows, columns, low, high, pos) ==
    LET drawn == Randint(low, high, rows * Len(columns), pos).values
    IN  [index |-> Dense([i \in 1..rows |-> i - 1]),
         columns |-> columns,
         values |-> Dense([i \in 1..rows |-> Dense([j \in 1..Len(columns) |->
                        Num(drawn[(i - 1) * Len(columns) + j])])])]

\* the labels of area and population, numbered in alphabetical order, which
\* is the order of the strings
Alaska == 0
California == 1
NewYork == 2
Texas == 3

\* area = pd.Series({'Alaska': 1723337, 'Texas': 695662, 'California': 423967})
AreaOf(label) ==
    CASE label = Alaska -> 1723337
      [] label = Texas -> 695662
      [] label = California -> 423967
AreaLabels == {Alaska, Texas, California}

\* population = pd.Series({'California': 38332521, 'Texas': 26448193,
\*                         'New York': 19651127})
PopulationOf(label) ==
    CASE label = California -> 38332521
      [] label = Texas -> 26448193
      [] label = NewYork -> 19651127
PopulationLabels == {California, Texas, NewYork}

\* the orders in which the keys of a dict can be written
KeyOrders(keys) ==
    {order \in [1..Cardinality(keys) -> keys] :
        \A i, j \in 1..Cardinality(keys) : order[i] = order[j] => i = j}

\* pd.Series(dict): the keys in the order of the dict, each with its value
area(order) ==
    [index |-> order, values |-> Dense([i \in 1..Len(order) |-> Num(AreaOf(order[i]))])]
population(order) ==
    [index |-> order,
     values |-> Dense([i \in 1..Len(order) |-> Num(PopulationOf(order[i]))])]

\* x / y on two values; the quotient is kept as numerator and denominator
DivValues(x, y) ==
    IF x.nan \/ y.nan THEN NaN ELSE [nan |-> FALSE, v |-> <<x.v, y.v>>]

\* as SeriesDiv, were the values divided by position and not by label
SeriesDivByPosition(left, right) ==
    [index |-> left.index,
     values |-> Dense([i \in 1..Len(left.index) |->
                    DivValues(left.values[i], right.values[i])])]

\* left / right on two Series
SeriesDiv(left, right) ==
    LET join_index == AlignedIndex(left.index, right.index)
        l == ReindexSeries(left, join_index)
        r == ReindexSeries(right, join_index)
    IN  [index |-> join_index,
         values |-> Dense([i \in 1..Len(join_index) |->
                        DivValues(l.values[i], r.values[i])])]

InitAlign ==
    /\ al_pc = "start"
    /\ al_kind \in {"Series", "DataFrame", "population / area"}
    /\ A \in CASE al_kind = "Series" ->
                    {LeftSeries(index) : index \in Indexes}
               [] al_kind = "DataFrame" ->
                    {Frame(rows, columns, 0, 20, 1) :
                        rows \in 1..MaxRows, columns \in Indexes}
               [] al_kind = "population / area" ->
                    {population(order) : order \in KeyOrders(PopulationLabels)}
    /\ B \in CASE al_kind = "Series" ->
                    {RightSeries(index) : index \in Indexes}
               [] al_kind = "DataFrame" ->
                    {Frame(rows, columns, 0, 10,
                           Randint(0, 20, Len(A.index) * Len(A.columns), 1).pos) :
                        rows \in 1..MaxRows, columns \in Indexes}
               [] al_kind = "population / area" ->
                    {area(order) : order \in KeyOrders(AreaLabels)}
    /\ al_out = EmptySeries
    /\ fill = NaN
    /\ idleButAl

\* population / area
DivideSeries ==
    /\ al_pc = "start"
    /\ al_kind = "population / area"
    /\ al_out' = SeriesDiv(A, B)
    /\ al_pc' = "divided"
    /\ UNCHANGED <<al_kind, A, B, fill>>
    /\ UNCHANGED notAl

\* A + B, two Series
AddSeries ==
    /\ al_pc = "start"
    /\ al_kind = "Series"
    /\ al_out' = SeriesAdd(A, B)
    /\ al_pc' = "added"
    /\ UNCHANGED <<al_kind, A, B, fill>>
    /\ UNCHANGED notAl

\* A + B, two DataFrames
AddFrames ==
    /\ al_pc = "start"
    /\ al_kind = "DataFrame"
    /\ al_out' = FrameAdd(A, B)
    /\ al_pc' = "added"
    /\ UNCHANGED <<al_kind, A, B, fill>>
    /\ UNCHANGED notAl

MaxFill == 1

\* as FillMissing, were nothing filled in
FillMissingNever(x, y, fill_value) == x

\* x as the operation takes it when fill_value is given: fill_value if x is
\* missing and y is not, else x
FillMissing(x, y, fill_value) ==
    IF x.nan /\ ~y.nan THEN fill_value ELSE x

\* left.add(right, fill_value=fill_value) on two Series
SeriesAddFill(left, right, fill_value) ==
    LET join_index == AlignedIndex(left.index, right.index)
        l == ReindexSeries(left, join_index)
        r == ReindexSeries(right, join_index)
    IN  [index |-> join_index,
         values |-> Dense([i \in 1..Len(join_index) |->
                        AddValues(FillMissing(l.values[i], r.values[i], fill_value),
                                  FillMissing(r.values[i], l.values[i], fill_value))])]

\* the greatest common divisor of two naturals
RECURSIVE Gcd(_, _)
Gcd(m, n) == IF n = 0 THEN m ELSE Gcd(n, m % n)

\* a float that is not an integer is kept as a fraction <<numerator,
\* denominator>> in lowest terms
Fraction(num, den) == <<num \div Gcd(num, den), den \div Gcd(num, den)>>

\* an integer value as a float
AsFloat(x) == IF x.nan THEN NaN ELSE Num(<<x.v, 1>>)

\* x + y on two floats
AddFloats(x, y) ==
    IF x.nan \/ y.nan THEN NaN
    ELSE Num(Fraction(x.v[1] * y.v[2] + y.v[1] * x.v[2], x.v[2] * y.v[2]))

\* frame.stack(): the values of the frame that are not NaN, row by row
RECURSIVE Stack(_, _)
Stack(frame, i) ==
    IF i > Len(frame.values) THEN <<>>
    ELSE SelectSeq(frame.values[i], LAMBDA x : ~x.nan) \o Stack(frame, i + 1)

\* the sum of the first n values of a sequence
RECURSIVE SumValues(_, _)
SumValues(values, n) ==
    IF n = 0 THEN 0 ELSE SumValues(values, n - 1) + values[n].v

\* values.mean(): NaN if there is no value
Mean(values) ==
    IF Len(values) = 0 THEN NaN
    ELSE Num(Fraction(SumValues(values, Len(values)), Len(values)))

\* left.add(right, fill_value=fill_value) on two DataFrames, fill_value a
\* float
FrameAddFill(left, right, fill_value) ==
    LET join_index == AlignedIndex(left.index, right.index)
        join_columns == AlignedIndex(left.columns, right.columns)
        l == ReindexFrame(left, join_index, join_columns)
        r == ReindexFrame(right, join_index, join_columns)
    IN  [index |-> join_index,
         columns |-> join_columns,
         values |-> Dense([i \in 1..Len(join_index) |->
                        Dense([j \in 1..Len(join_columns) |->
                            AddFloats(FillMissing(AsFloat(l.values[i][j]),
                                                  AsFloat(r.values[i][j]), fill_value),
                                      FillMissing(AsFloat(r.values[i][j]),
                                                  AsFloat(l.values[i][j]), fill_value))])])]

\* A.add(B, fill_value=0), two Series
AddSeriesFill(fill_value) ==
    /\ al_pc = "start"
    /\ al_kind = "Series"
    /\ fill' = Num(fill_value)
    /\ al_out' = SeriesAddFill(A, B, Num(fill_value))
    /\ al_pc' = "filled"
    /\ UNCHANGED <<al_kind, A, B>>
    /\ UNCHANGED notAl

\* fill = A.stack().mean(); A.add(B, fill_value=fill), two DataFrames
AddFramesFill ==
    /\ al_pc = "start"
    /\ al_kind = "DataFrame"
    /\ fill' = Mean(Stack(A, 1))
    /\ al_out' = FrameAddFill(A, B, Mean(Stack(A, 1)))
    /\ al_pc' = "filled"
    /\ UNCHANGED <<al_kind, A, B>>
    /\ UNCHANGED notAl

\* ufunc(x) on one value; the result is kept as the name of the function and
\* its argument
ApplyUfunc(ufunc, x) ==
    IF x.nan THEN NaN ELSE [nan |-> FALSE, v |-> <<ufunc, x.v>>]

\* as UfuncSeries, were the result put in the order of its labels as the
\* result of a binary operation is
UfuncSeriesSortingIndex(ufunc, series) ==
    LET sorted == ReindexSeries(series, SortedLabels({series.index[i] : i \in 1..Len(series.index)}))
    IN  [index |-> sorted.index,
         values |-> Dense([i \in 1..Len(sorted.values) |->
                        ApplyUfunc(ufunc, sorted.values[i])])]

\* ufunc(series): the function on every value, under the index of the series
UfuncSeries(ufunc, series) ==
    [index |-> series.index,
     values |-> Dense([i \in 1..Len(series.values) |->
                    ApplyUfunc(ufunc, series.values[i])])]

\* ufunc(frame): the function on every value, under the index and the
\* columns of the frame
UfuncFrame(ufunc, frame) ==
    [index |-> frame.index,
     columns |-> frame.columns,
     values |-> Dense([i \in 1..Len(frame.values) |->
                    Dense([j \in 1..Len(frame.values[i]) |->
                        ApplyUfunc(ufunc, frame.values[i][j])])])]

\* np.exp(ser)
ExpSeries ==
    /\ al_pc = "start"
    /\ al_kind = "Series"
    /\ al_out' = UfuncSeries("exp", A)
    /\ al_pc' = "applied"
    /\ UNCHANGED <<al_kind, A, B, fill>>
    /\ UNCHANGED notAl

\* np.sin(df * np.pi / 4)
SinFrame ==
    /\ al_pc = "start"
    /\ al_kind = "DataFrame"
    /\ al_out' = UfuncFrame("sin", UfuncFrame("* np.pi / 4", A))
    /\ al_pc' = "applied"
    /\ UNCHANGED <<al_kind, A, B, fill>>
    /\ UNCHANGED notAl

NextAlign ==
    \/ ExpSeries
    \/ SinFrame
    \/ AddSeries
    \/ AddFrames
    \/ DivideSeries
    \/ \E fill_value \in 0..MaxFill : AddSeriesFill(fill_value)
    \/ AddFramesFill

SpecAlign == InitAlign /\ [][NextAlign]_vars


(***************************************************************************)
(* pandas 08, cell 10: a chained comparison of four integer frames of one  *)
(* shape, written with operators and given to pd.eval as a string.  A      *)
(* frame is the sequence of its values, row by row; the frames have the    *)
(* same default labels.                                                    *)
(***************************************************************************)
MaxEvalSize == 2
MaxEvalValue == 1

\* the frames of size values
EvalFrames(size) == [1..size -> 0..MaxEvalValue]

\* x op y, value by value
CompareFrames(op, x, y) ==
    Dense([i \in 1..Len(x) |->
        CASE op = "<"  -> x[i] < y[i]
          [] op = "<=" -> x[i] <= y[i]
          [] op = "!=" -> x[i] # y[i]])

\* x & y, value by value
AndFrames(x, y) == Dense([i \in 1..Len(x) |-> x[i] /\ y[i]])

\* what the string 'df1 < df2 <= df3 != df4' parses to: one comparison node
\* with a left operand, three operators and three comparators
ChainedComparison ==
    [left |-> "df1",
     ops |-> <<"<", "<=", "!=">>,
     comparators |-> <<"df2", "df3", "df4">>]

\* the frames the names of the expression are bound to
Scope == [df1 |-> df1, df2 |-> df2, df3 |-> df3, df4 |-> df4]

\* as NextLeft, were every comparison of the chain made with the first operand
NextLeftKept(left, comp) == left

\* the left operand of the next comparison of a chain: the comparator of
\* this one
NextLeft(left, comp) == comp

\* the comparisons of a chain, one for each operator
RECURSIVE CompareValues(_, _, _, _)
CompareValues(left, ops, comps, scope) ==
    IF ops = <<>> THEN <<>>
    ELSE <<CompareFrames(Head(ops), scope[left], scope[Head(comps)])>>
         \o CompareValues(NextLeft(left, Head(comps)), Tail(ops),
                          Tail(comps), scope)

\* the conjunction of the values of a boolean operation, from the left
RECURSIVE visit_BoolOp(_)
visit_BoolOp(values) ==
    IF Len(values) = 1 THEN values[1]
    ELSE AndFrames(visit_BoolOp(SubSeq(values, 1, Len(values) - 1)),
                   values[Len(values)])

\* pd.eval on a comparison node
visit_Compare(node, scope) ==
    visit_BoolOp(CompareValues(node.left, node.ops, node.comparators, scope))

\* np.array_equal(a1, a2)
array_equal(a1, a2) ==
    /\ Len(a1) = Len(a2)
    /\ \A i \in 1..Len(a1) : a1[i] = a2[i]

InitEval ==
    /\ ev_pc = "start"
    /\ \E size \in 1..MaxEvalSize :
          /\ df1 \in EvalFrames(size)
          /\ df2 \in EvalFrames(size)
          /\ df3 \in EvalFrames(size)
          /\ df4 \in EvalFrames(size)
    /\ result1 = <<>>
    /\ result2 = <<>>
    /\ ev_equal = FALSE
    /\ idleButEv

evFrames == <<df1, df2, df3, df4>>

\* result1 = (df1 < df2) & (df2 <= df3) & (df3 != df4)
Result1 ==
    /\ ev_pc = "start"
    /\ result1' = AndFrames(AndFrames(CompareFrames("<", df1, df2),
                                      CompareFrames("<=", df2, df3)),
                            CompareFrames("!=", df3, df4))
    /\ ev_pc' = "result1"
    /\ UNCHANGED <<evFrames, result2, ev_equal>>
    /\ UNCHANGED notEv

\* result2 = pd.eval('df1 < df2 <= df3 != df4')
Result2 ==
    /\ ev_pc = "result1"
    /\ result2' = visit_Compare(ChainedComparison, Scope)
    /\ ev_pc' = "result2"
    /\ UNCHANGED <<evFrames, result1, ev_equal>>
    /\ UNCHANGED notEv

\* np.array_equal(result1, result2)
ArrayEqual ==
    /\ ev_pc = "result2"
    /\ ev_equal' = array_equal(result1, result2)
    /\ ev_pc' = "compared"
    /\ UNCHANGED <<evFrames, result1, result2>>
    /\ UNCHANGED notEv

NextEval ==
    \/ Result1
    \/ Result2
    \/ ArrayEqual

SpecEval == InitEval /\ [][NextEval]_vars


(***************************************************************************)
(* Properties of TextVectorization, BagOfWords and preprocess_text.        *)
(***************************************************************************)
Range(f) == {f[i] : i \in DOMAIN f}

\* the words of the preprocessed sample, padding left out, in order
SampleWords ==
    SelectSeq(FlattenRows(preprocess_text(data_sample, DefaultNWords), 1),
              LAMBDA word : word # PadToken)

Occurrences(ws, w) == Cardinality({i \in 1..Len(ws) : ws[i] = w})
FirstOccurrence(ws, w) ==
    CHOOSE i \in 1..Len(ws) : ws[i] = w /\ \A j \in 1..(i - 1) : ws[j] # w

\* 1 + the number of words that are more frequent than w in ws, or as
\* frequent and met earlier
FrequencyRank(ws, w) ==
    1 + Cardinality({v \in Range(ws) :
            \/ Occurrences(ws, v) > Occurrences(ws, w)
            \/ /\ Occurrences(ws, v) = Occurrences(ws, w)
               /\ FirstOccurrence(ws, v) < FirstOccurrence(ws, w)})

\* C2: after adapt(sample), the layer maps <pad> to id 0 and every word of the
\* vocabulary (the max_vocabulary_size words of the preprocessed sample that
\* rank first by descending frequency, ties broken by first occurrence) to
\* its 1-based rank, wherever the word occurs in the input.
C2_VocabularyIdsAreRanks ==
    tv_pc = "called" =>
        LET ws == SampleWords
            pre == preprocess_text(tv_inputs, DefaultNWords)
        IN  /\ vocab[1] = PadToken
            /\ \A r \in 1..Len(pre) : \A j \in 1..Len(pre[r]) :
                  pre[r][j] = PadToken => tv_ids[r][j] = 0
            /\ \A w \in Range(ws) :
                  LET rank == FrequencyRank(ws, w)
                  IN  rank <= max_vocabulary_size =>
                          /\ vocab[rank + 1] = w
                          /\ \A r \in 1..Len(pre) : \A j \in 1..Len(pre[r]) :
                                pre[r][j] = w => tv_ids[r][j] = rank

\* a call whose input holds padding and the word of rank 2, which is as
\* frequent in the sample as the word of rank 1
C2_Witness ==
    /\ tv_pc = "called"
    /\ Len(vocab) >= 3
    /\ Occurrences(SampleWords, vocab[2]) = Occurrences(SampleWords, vocab[3])
    /\ \E r \in 1..Len(tv_ids) :
          /\ \E j \in 1..Len(tv_ids[r]) : tv_ids[r][j] = 2
          /\ \E j \in 1..Len(tv_ids[r]) : tv_ids[r][j] = 0

\* C3: every id the layer returns lies in 0..n_tokens-1, with
\* n_tokens = max_vocabulary_size + n_oov_buckets + 1.
C3_IdsBelowNTokens ==
    tv_pc = "called" =>
        \A r \in 1..Len(tv_ids) : \A j \in 1..Len(tv_ids[r]) :
            tv_ids[r][j] \in 0..(n_tokens - 1)

\* a call that returns the largest id, n_tokens - 1, for a word outside a full
\* vocabulary, next to the id of a vocabulary word and the id of padding
C3_Witness ==
    /\ tv_pc = "called"
    /\ Len(vocab) = max_vocabulary_size + 1
    /\ \E r \in 1..Len(tv_ids) :
          /\ \E j \in 1..Len(tv_ids[r]) : tv_ids[r][j] = n_tokens - 1
          /\ \E j \in 1..Len(tv_ids[r]) : tv_ids[r][j] \in 1..max_vocabulary_size
          /\ \E j \in 1..Len(tv_ids[r]) : tv_ids[r][j] = 0

RECURSIVE SeqSum(_)
SeqSum(f) == IF f = <<>> THEN 0 ELSE Head(f) + SeqSum(Tail(f))

\* C4: BagOfWords(n_tokens) returns for every row of ids a row of
\* n_tokens - 1 counts, the count of id k at position k (index k - 1 counted
\* from 0) for k in 1..n_tokens-1; the count of id 0 is dropped, so a row of
\* counts sums to the number of ids of the row that are not 0.
C4_BagCountsIds ==
    tv_pc = "bagged" =>
        /\ Len(bow_out) = Len(tv_ids)
        /\ \A r \in 1..Len(tv_ids) :
              /\ Len(bow_out[r]) = n_tokens - 1
              /\ \A k \in 1..(n_tokens - 1) :
                    bow_out[r][k] =
                        Cardinality({j \in 1..Len(tv_ids[r]) : tv_ids[r][j] = k})
              /\ SeqSum(bow_out[r]) =
                    Cardinality({j \in 1..Len(tv_ids[r]) : tv_ids[r][j] # 0})

\* a row with padding and twice the same word has been counted
C4_Witness ==
    /\ tv_pc = "bagged"
    /\ \E r \in 1..Len(tv_ids) :
          /\ \E j \in 1..Len(tv_ids[r]) : tv_ids[r][j] = 0
          /\ \E k \in 1..(n_tokens - 1) : bow_out[r][k] = 2
          /\ SeqSum(bow_out[r]) < Len(tv_ids[r])

\* C5: preprocess_text(X_batch, n_words) returns n_words tokens for every
\* review: its first n_words words, then <pad>; every token that is not <pad>
\* is made of the letters a to z.
C5_RowsHaveNWordsTokens ==
    pp_pc = "done" =>
        /\ Len(Z) = Len(X_batch)
        /\ \A r \in 1..Len(Z) :
              /\ Len(Z[r]) = n_words
              /\ \A j \in 1..Len(Z[r]) :
                    Z[r][j] # PadToken => Range(Z[r][j]) \subseteq Letters

\* C1: the training loop stops only after n_epochs epochs, each of n_steps
\* passes through the body of the inner loop and one validation report,
\* whatever the size of the training set and the batch size.
C1_LoopRunsAllEpochs ==
    /\ tl_pc # "NameError"
    /\ tl_pc = "done" =>
          /\ epoch = n_epochs
          /\ n_iterations = n_epochs * n_steps
          /\ n_reports = n_epochs

\* the records of a sequence of batches
BatchedRecords(batches) == UNION {batches[i] : i \in 1..Len(batches)}
BatchedCount(batches) ==
    SeqSum(Dense([i \in 1..Len(batches) |-> Cardinality(batches[i])]))

\* C7 as stated: no two operations of a pipeline are in progress at the same
\* time, so at most one file is being read and at most one preprocess call
\* is running.
C7_OneAtATime ==
    /\ Cardinality(ld_open) <= 1
    /\ Cardinality(ld_running) <= 1

\* C7: load_dataset asks for parallel execution, as many parallel preprocess
\* calls as os.cpu_count() returns: while the dataset is iterated never more
\* preprocess calls are running than that, so that they run one at a time
\* only where os.cpu_count() is 1.
C7_ParallelAsRequested ==
    ld_pc # "idle" =>
        /\ Cardinality(ld_running) <= cpu_count
        /\ Cardinality(ld_running) > 1 => cpu_count > 1

\* two preprocess calls are running while a file is being read
C7_Witness ==
    /\ ld_pc = "iterating"
    /\ cpu_count >= 2
    /\ Cardinality(ld_running) = cpu_count
    /\ ld_open # {}

\* the place of the first None of a list, 0 if it has none
FirstNone(list) ==
    IF \E i \in 1..Len(list) : list[i].none
    THEN CHOOSE i \in 1..Len(list) :
             list[i].none /\ \A j \in 1..(i - 1) : ~list[j].none
    ELSE 0

\* what file f of a call holds once the call has written count elements
WrittenTo(f, count) ==
    [k \in 1..Cardinality(FileRecords(f - 1, count, n_records)) |->
        RecordAt(f - 1, k - 1, n_records)]

\* the list comprehension: it raises at the first None, after one call of
\* capitalize per entry before it, and then the cell has no value; it has
\* the list of the capitalized strings as its value if data holds no None
ListCompStopsAtNone ==
    /\ lc_pc \in {"start", "listcomp", "AttributeError"} => lc_out = NoValue
    /\ lc_pc = "AttributeError" =>
          /\ FirstNone(data) > 0
          /\ lc_calls = FirstNone(data) - 1
          /\ data = lc_literal
    /\ lc_pc = "displayed" =>
          /\ FirstNone(data) = 0
          /\ lc_calls = Len(data)
          /\ lc_out.produced
          /\ Len(lc_out.value) = Len(data)
          /\ \A i \in 1..Len(data) :
                lc_out.value[i] = Str(Capitalize(data[i].s))

\* the statements before the one that raised are done, the statements after
\* it have not been executed, the call that raised has returned nothing
SaveStopsAtException ==
    sv_pc = "raised" =>
        /\ sv_bound = 1..(sv_stmt - 1)
        /\ \A k \in 1..(sv_stmt - 1) :
              /\ Len(sv_files[k]) = n_records
              /\ \A f \in 1..n_records : sv_files[k][f] = WrittenTo(f, sv_len)
        /\ \A k \in (sv_stmt + 1)..NStatements : sv_files[k] = <<>>
        /\ \A w \in 1..Len(writers) : writers[w] = "closed"

\* C8 as stated: an exception stops the cell, nothing is retried, the
\* statements that follow are not executed and the operation that raised has
\* produced nothing, not even a part of its result.
C8_NoPartialResult ==
    /\ ListCompStopsAtNone
    /\ SaveStopsAtException
    /\ sv_pc = "raised" => sv_files[sv_stmt] = <<>>

\* C8: an exception stops the cell, nothing is retried, the statements that
\* follow are not executed and the operation that raised has no value: no
\* list, no filepaths.  What was done before the exception stays done: data
\* is bound, and save_tfrecords leaves the files it has created, closed,
\* with the elements written so far.
C8_ExceptionStopsCell ==
    /\ ListCompStopsAtNone
    /\ SaveStopsAtException
    /\ sv_pc = "raised" =>
          /\ Len(sv_files[sv_stmt]) = Len(writers)
          /\ \A f \in 1..Len(writers) :
                sv_files[sv_stmt][f] = WrittenTo(f, sv_idx)

\* the second call of save_tfrecords has raised after it had written an
\* element
C8_Witness ==
    /\ sv_pc = "raised"
    /\ sv_stmt = 2
    /\ n_records = 2
    /\ sv_idx >= 1

\* t is s capitalized: the same letters, the first one not in lower case, the
\* others not in upper case
IsCapitalized(s, t) ==
    /\ Len(t) = Len(s)
    /\ StringsLower(t) = StringsLower(s)
    /\ t # <<>> => \A i \in 1..26 : t[1] # LowerCase[i]
    /\ \A k \in 2..Len(t) : \A i \in 1..26 : t[k] # UpperCase[i]

LabelSet(index) == {index[i] : i \in 1..Len(index)}
IsSorted(index) == \A i, j \in 1..Len(index) : i < j => index[i] < index[j]

\* out holds every label of left and of right once
IsUnion(out, left, right) ==
    /\ LabelSet(out) = LabelSet(left) \cup LabelSet(right)
    /\ Len(out) = Cardinality(LabelSet(out))

\* out is in ascending order, or it is the index the two operands share, or
\* the index of the one operand that is not empty
SortedUnlessSame(out, left, right) ==
    IF left = right \/ right = <<>> THEN out = left
    ELSE IF left = <<>> THEN out = right
    ELSE IsSorted(out)

\* the values of A + B: the sum where both operands have the label (the row
\* and the column), NaN where one of them has not
ValuesByLabel ==
    IF al_kind = "Series"
    THEN /\ Len(al_out.values) = Len(al_out.index)
         /\ \A i \in 1..Len(al_out.index) :
               LET a == Position(A.index, al_out.index[i])
                   b == Position(B.index, al_out.index[i])
               IN  al_out.values[i] =
                       IF a = 0 \/ b = 0 THEN NaN
                       ELSE Num(A.values[a].v + B.values[b].v)
    ELSE /\ Len(al_out.values) = Len(al_out.index)
         /\ \A i \in 1..Len(al_out.index) :
               /\ Len(al_out.values[i]) = Len(al_out.columns)
               /\ \A j \in 1..Len(al_out.columns) :
                     LET ar == Position(A.index, al_out.index[i])
                         br == Position(B.index, al_out.index[i])
                         ac == Position(A.columns, al_out.columns[j])
                         bc == Position(B.columns, al_out.columns[j])
                     IN  al_out.values[i][j] =
                             IF ar = 0 \/ br = 0 \/ ac = 0 \/ bc = 0 THEN NaN
                             ELSE Num(A.values[ar][ac].v + B.values[br][bc].v)

\* C10 as stated: the index of A + B (and its columns) is the union of the
\* labels of the operands in ascending order, whatever the order of the
\* labels in the operands; the value is the sum at the labels both have and
\* NaN at the labels one has not.
C10_SortedUnion ==
    al_pc = "added" =>
        /\ IsUnion(al_out.index, A.index, B.index)
        /\ IsSorted(al_out.index)
        /\ al_kind = "DataFrame" =>
              /\ IsUnion(al_out.columns, A.columns, B.columns)
              /\ IsSorted(al_out.columns)
        /\ ValuesByLabel

\* C10: the index of A + B (and its columns) holds the labels of the two
\* operands, each once; the value is the sum at the labels both have and NaN
\* at the labels one has not, whatever the order of the labels in the
\* operands.  The labels are in ascending order, except that operands with
\* the same index keep it as it is, and that an empty index leaves the index
\* of the other operand as it is.
C10_UnionSortedUnlessSame ==
    al_pc = "added" =>
        /\ IsUnion(al_out.index, A.index, B.index)
        /\ SortedUnlessSame(al_out.index, A.index, B.index)
        /\ al_kind = "DataFrame" =>
              /\ IsUnion(al_out.columns, A.columns, B.columns)
              /\ SortedUnlessSame(al_out.columns, A.columns, B.columns)
        /\ ValuesByLabel

\* two Series have been added whose indexes differ, the left one not in
\* ascending order, with a label both have and a label only one has
C10_Witness ==
    /\ al_pc = "added"
    /\ al_kind = "Series"
    /\ A.index # B.index
    /\ ~IsSorted(A.index)
    /\ LabelSet(A.index) \cap LabelSet(B.index) # {}
    /\ LabelSet(A.index) \ LabelSet(B.index) # {}
    /\ \E i \in 1..Len(al_out.values) : al_out.values[i] = NaN
    /\ \E i \in 1..Len(al_out.values) : al_out.values[i] # NaN

\* the labels at which a Series holds NaN
NaNLabels(series) ==
    {series.index[i] : i \in {k \in 1..Len(series.index) : series.values[k] = NaN}}

\* the labels one of two Series has and the other has not
MissingAnEntry(left, right) ==
    (LabelSet(left.index) \ LabelSet(right.index))
        \cup (LabelSet(right.index) \ LabelSet(left.index))

\* C11 as stated: in population / area the items that miss an entry in one
\* of the two Series, and are NaN in the result, are California and New York.
C11_CaliforniaAndNewYork ==
    al_pc = "divided" =>
        /\ MissingAnEntry(A, B) = {California, NewYork}
        /\ NaNLabels(al_out) = {California, NewYork}

\* what the cell gives: in population / area the items that miss an entry in
\* one of the two Series, and are NaN in the result, are Alaska and New York;
\* California and Texas hold the quotient of their population and their area.
AlaskaAndNewYork ==
    al_pc = "divided" =>
        /\ MissingAnEntry(A, B) = {Alaska, NewYork}
        /\ NaNLabels(al_out) = {Alaska, NewYork}
        /\ al_out.index = <<Alaska, California, NewYork, Texas>>
        /\ al_out.values[2].v = <<PopulationOf(California), AreaOf(California)>>
        /\ al_out.values[4].v = <<PopulationOf(Texas), AreaOf(Texas)>>

\* population / area has been computed on the two Series as the cell writes
\* them
DividedAsWritten ==
    /\ al_pc = "divided"
    /\ A.index = <<California, Texas, NewYork>>
    /\ B.index = <<Alaska, Texas, California>>
    /\ al_out.values[1] = NaN

\* the value of a Series at a label, of a DataFrame at a row label and a
\* column label: NaN where it has none
SeriesValue(series, label) ==
    IF label \in LabelSet(series.index)
    THEN series.values[Position(series.index, label)] ELSE NaN
FrameValue(frame, row, column) ==
    IF row \in LabelSet(frame.index) /\ column \in LabelSet(frame.columns)
    THEN frame.values[Position(frame.index, row)][Position(frame.columns, column)]
    ELSE NaN

\* out is what A.add(B, fill_value=v) holds where A has the integer a (NaN
\* if it has none) and B the integer b, v an integer: the sum where both
\* have one, the one value plus v where one has
IsFilledSum(out, a, b, v) ==
    IF ~a.nan /\ ~b.nan THEN out = Num(a.v + b.v)
    ELSE IF ~a.nan THEN out = Num(a.v + v.v)
    ELSE IF ~b.nan THEN out = Num(b.v + v.v)
    ELSE out = NaN

\* the fraction out is the integer x plus the fraction v
IsSumWithFraction(out, x, v) ==
    /\ out[2] > 0
    /\ out[1] * v[2] = (x * v[2] + v[1]) * out[2]

\* as IsFilledSum, v and out floats; v can be NaN, and then out is
IsFilledFloatSum(out, a, b, v) ==
    IF ~a.nan /\ ~b.nan THEN ~out.nan /\ IsSumWithFraction(out.v, a.v + b.v, <<0, 1>>)
    ELSE IF a.nan /\ b.nan THEN out = NaN
    ELSE IF v.nan THEN out = NaN
    ELSE IF ~a.nan THEN ~out.nan /\ IsSumWithFraction(out.v, a.v, v.v)
    ELSE ~out.nan /\ IsSumWithFraction(out.v, b.v, v.v)

\* C12: A.add(B, fill_value=v), v a number, holds at a label (for
\* DataFrames: a row label and a column label) where only one operand has a
\* value, this value plus v; where both have a value, their sum; it holds no
\* NaN where at least one operand has a value.  On the DataFrames v is the
\* mean of the values of A.
C12_FillValueReplacesMissing ==
    al_pc = "filled" =>
        IF al_kind = "Series"
        THEN /\ IsUnion(al_out.index, A.index, B.index)
             /\ \A i \in 1..Len(al_out.index) :
                   LET a == SeriesValue(A, al_out.index[i])
                       b == SeriesValue(B, al_out.index[i])
                   IN  /\ IsFilledSum(al_out.values[i], a, b, fill)
                       /\ (~a.nan \/ ~b.nan) => ~al_out.values[i].nan
        ELSE /\ IsUnion(al_out.index, A.index, B.index)
             /\ IsUnion(al_out.columns, A.columns, B.columns)
             /\ fill.nan <=> Len(A.columns) = 0
             /\ ~fill.nan =>
                   fill.v[1] * Len(A.index) * Len(A.columns)
                       = fill.v[2] * SeqSum(Dense([k \in 1..(Len(A.index) * Len(A.columns)) |->
                             A.values[((k - 1) \div Len(A.columns)) + 1]
                                     [((k - 1) % Len(A.columns)) + 1].v]))
             /\ \A i \in 1..Len(al_out.index) : \A j \in 1..Len(al_out.columns) :
                   LET a == FrameValue(A, al_out.index[i], al_out.columns[j])
                       b == FrameValue(B, al_out.index[i], al_out.columns[j])
                   IN  /\ IsFilledFloatSum(al_out.values[i][j], a, b, fill)
                       /\ (~fill.nan /\ (~a.nan \/ ~b.nan)) => ~al_out.values[i][j].nan

\* two Series have been added with a fill value that is not 0, one label in
\* A only, one in B only and one in both
C12_Witness ==
    /\ al_pc = "filled"
    /\ al_kind = "Series"
    /\ fill.v > 0
    /\ LabelSet(A.index) \ LabelSet(B.index) # {}
    /\ LabelSet(B.index) \ LabelSet(A.index) # {}
    /\ LabelSet(A.index) \cap LabelSet(B.index) # {}
    /\ \A i \in 1..Len(al_out.values) : ~al_out.values[i].nan

\* C13: a unary ufunc applied to a Series or a DataFrame returns the labels
\* of the rows, and of the columns, of its argument, in the order they have
\* there; the value at each place is the function of the value the argument
\* has at this place.
C13_UfuncPreservesIndex ==
    al_pc = "applied" =>
        /\ al_out.index = A.index
        /\ Len(al_out.values) = Len(A.values)
        /\ IF al_kind = "Series"
           THEN \A i \in 1..Len(A.values) :
                   al_out.values[i] = Num(<<"exp", A.values[i].v>>)
           ELSE /\ al_out.columns = A.columns
                /\ \A i \in 1..Len(A.values) :
                      /\ Len(al_out.values[i]) = Len(A.columns)
                      /\ \A j \in 1..Len(A.columns) :
                            al_out.values[i][j] =
                                Num(<<"sin", <<"* np.pi / 4", A.values[i][j].v>>>>)

\* np.exp has been applied to a Series whose labels are not in ascending
\* order
C13_Witness ==
    /\ al_pc = "applied"
    /\ al_kind = "Series"
    /\ Len(A.index) >= 2
    /\ ~IsSorted(A.index)
    /\ al_out.index = A.index

\* C14: for four integer frames of one shape, what pd.eval returns for
\* 'df1 < df2 <= df3 != df4' is, value by value, the conjunction of
\* df1 < df2, df2 <= df3 and df3 != df4, and np.array_equal finds it equal to
\* the expression written with operators.
C14_ChainIsConjunction ==
    /\ ev_pc \in {"result2", "compared"} =>
          /\ Len(result2) = Len(df1)
          /\ \A i \in 1..Len(df1) :
                result2[i] = (df1[i] < df2[i] /\ df2[i] <= df3[i] /\ df3[i] # df4[i])
          /\ result2 = result1
    /\ ev_pc = "compared" => ev_equal

\* the comparison has been made on frames of two values in which a value of
\* the chain holds, and one in which the first and the last operand tell
\* the chain from comparisons with the first operand alone
C14_Witness ==
    /\ ev_pc = "compared"
    /\ Len(df1) = 2
    /\ result2[1]
    /\ ~result2[2]
    /\ df1[2] < df2[2] /\ df2[2] > df3[2] /\ df1[2] <= df3[2] /\ df1[2] # df4[2]

\* the writers the call has opened so far, one for each file it has created
OpenedWriters == Len(sv_files[sv_stmt])

\* C15: when a call of save_tfrecords is over, by a return or by an
\* exception raised while it opens, iterates or writes, every writer the call
\* has opened is closed; and the step that returns and binds the list of
\* paths leaves all n_records writers closed.
C15_NoWriterLeftOpen ==
    /\ [](sv_pc \in {"raised", "finished"} =>
             /\ Len(writers) = OpenedWriters
             /\ \A w \in 1..Len(writers) : writers[w] = "closed")
    /\ [](sv_pc = "call" /\ sv_stmt > 1 =>
             /\ Len(writers) = Len(sv_files[sv_stmt - 1])
             /\ \A w \in 1..Len(writers) : writers[w] = "closed")
    /\ [][sv_bound' # sv_bound =>
             /\ Len(writers') = n_records
             /\ \A w \in 1..n_records : writers'[w] = "closed"]_vars

\* the first call has opened two writers and written an element, the next
\* element has raised and the two writers are closed
C15_Witness ==
    /\ sv_pc = "raised"
    /\ sv_stmt = 1
    /\ sv_idx >= 1
    /\ Len(writers) = 2
    /\ \A w \in 1..2 : writers[w] = "closed"

====
